---- MODULE Spec2Model ----
(***************************************************************************)
(* ServiceHub backend: the unit balance of subscriptions and prepaid       *)
(* cards, the order status lifecycle, the permission / error handling of   *)
(* the services, card option, orders, payments, refund and wallet          *)
(* endpoints, and the verification, password reset and login endpoints.    *)
(*                                                                         *)
(* The database is the state.  Every HTTP handler is one action: DRF runs  *)
(* authentication, permission checks, get_object and the handler body on   *)
(* one thread, and the ORM writes it makes are part of the action.  Only   *)
(* RaceSpec splits a use_units request into its read and its write, to     *)
(* expose the interleavings of two requests.                               *)
(***************************************************************************)
EXTENDS Integers, Sequences, FiniteSets, TLC

VARIABLES
    now,        \* the wall clock read by timezone.now()
    sub,        \* the stored Subscription row (NoSub before creation)
    subRet,     \* return value of the last Subscription method call
    wk,         \* per worker: the in-memory Subscription instance of a request in flight
    resp,       \* the response to the last HTTP request
    services,   \* Service rows by id
    orders,     \* Order rows by id
    history,    \* OrderStatusHistory rows, oldest first
    wallets,    \* Wallet row of each user
    cards,      \* PrepaidCard rows by id
    usage,      \* CardUsage rows, oldest first
    payments,   \* Payment rows, oldest first
    req,        \* the body of the last HTTP request (of the endpoints that record it)
    options,    \* PrepaidCardOption rows by id
    refunds,    \* Refund rows, oldest first
    emailVerified,  \* User.is_email_verified of each user
    emailTokens,    \* EmailVerificationToken rows by token value
    phoneVerified,  \* User.is_phone_verified of each user
    phoneTokens,    \* PhoneVerificationToken rows by id
    phoneWrong,     \* history: confirmation requests with a wrong code received per phone token
    resetTokens,    \* PasswordResetToken rows, oldest first
    loginAttempts   \* LoginAttempt rows, oldest first

vars == <<now, sub, subRet, wk, resp, services, orders, history, wallets, cards,
          usage, payments, req, options, refunds, emailVerified, emailTokens,
          phoneVerified, phoneTokens, phoneWrong, resetTokens, loginAttempts>>

subVars == <<sub, subRet, wk>>
httpVars == <<resp, services, orders, history, wallets, cards, usage, payments>>
authVars == <<emailVerified, emailTokens, phoneVerified, phoneTokens, phoneWrong,
              resetTokens, loginAttempts>>
extVars == <<req, options, refunds, authVars>>

(***************************************************************************)
(* Bounds                                                                  *)
(***************************************************************************)
MaxNow == 3
MaxUnits == 3
MaxQty == 2
MaxNegQty == 1
NumWorkers == 2
MaxServices == 2
MaxHistory == 2
MaxUsage == 2
MaxPayments == 1
MaxBalance == 1
MaxOptions == 2
MaxRefunds == 1
MaxTokens == 2
MaxWrongTries == 3
MaxLogins == 2

Null == 0
Workers == 1..NumWorkers

Tick ==
    /\ now < MaxNow
    /\ now' = now + 1
    /\ UNCHANGED <<subVars, httpVars, extVars>>

(***************************************************************************)
(* Subscription (services/models.py)                                       *)
(***************************************************************************)
NoSub == [status |-> "none"]

SubStatus == {"active", "paused", "completed", "cancelled"}

\* Subscription(...) with the field defaults: status 'active', used_units 0.
NewSubscription(total) ==
    [status |-> "active", total_units |-> total, used_units |-> 0,
     remaining_units |-> 0, paused_at |-> Null, completed_at |-> Null,
     cancelled_at |-> Null]

\* Subscription.save: recompute remaining_units, auto-complete, write the row.
SubSaveStale(s) == s
SubSaveNoAutoComplete(s) == [s EXCEPT !.remaining_units = s.total_units - s.used_units]
SubSave(s) ==
    LET r == [s EXCEPT !.remaining_units = s.total_units - s.used_units]
    IN  IF r.remaining_units = 0 /\ r.status = "active"
        THEN [r EXCEPT !.status = "completed", !.completed_at = now]
        ELSE r

\* Subscription.use_units on the in-memory instance s: the return value and the
\* instance afterwards (written to the row by save() when ok).
SubUseUnitsAtomicAdd(s, q) ==
    IF s.status # "active" THEN [ok |-> FALSE, obj |-> s]
    ELSE IF s.remaining_units < q THEN [ok |-> FALSE, obj |-> s]
    ELSE [ok |-> TRUE, obj |-> SubSave([s EXCEPT !.used_units = sub.used_units + q])]
SubUseUnits(s, q) ==
    IF s.status # "active" THEN [ok |-> FALSE, obj |-> s]
    ELSE IF s.remaining_units < q THEN [ok |-> FALSE, obj |-> s]
    ELSE [ok |-> TRUE, obj |-> SubSave([s EXCEPT !.used_units = s.used_units + q])]

\* Subscription.pause
SubPause(s) ==
    IF s.status = "active"
    THEN [ok |-> TRUE, obj |-> SubSave([s EXCEPT !.status = "paused", !.paused_at = now])]
    ELSE [ok |-> FALSE, obj |-> s]

\* Subscription.resume
SubResume(s) ==
    IF s.status = "paused" /\ s.remaining_units > 0
    THEN [ok |-> TRUE, obj |-> SubSave([s EXCEPT !.status = "active", !.paused_at = Null])]
    ELSE [ok |-> FALSE, obj |-> s]

\* Subscription.cancel
SubCancel(s) ==
    IF s.status \in {"active", "paused"}
    THEN [ok |-> TRUE, obj |-> SubSave([s EXCEPT !.status = "cancelled", !.cancelled_at = now])]
    ELSE [ok |-> FALSE, obj |-> s]

IdleWorker == [pc |-> "idle", qty |-> 0, ok |-> FALSE, inst |-> NoSub]

NoRet == [op |-> "none", ok |-> FALSE]

(***************************************************************************)
(* Users (users/models.py) and the rows of the other tables                *)
(***************************************************************************)
Anon == "anon"      \* AnonymousUser: a request without a token
Users == {"c1", "c2", "p1", "p2", "a1"}

\* User.role
Role(u) ==
    IF u \in {"p1", "p2"} THEN "provider"
    ELSE IF u = "a1" THEN "admin"
    ELSE "customer"

\* the users that have a ServiceProvider row (ServiceProvider.user, one to one)
HasProviderProfile(u) == u \in {"p1", "p2"}

ServiceIds == 1..MaxServices
NoService == [provider |-> "none"]
\* one order is followed through its life; UnknownId is the id of no row
OrderIds == {1}
NoOrder == [customer |-> "none"]
\* likewise one prepaid card
CardIds == {1}
NoCard == [customer |-> "none"]
UnknownId == MaxServices + 1
NoWallet == [balance |-> 0 - 1]
NoResp == [op |-> "none", user |-> Anon, id |-> 0, code |-> 0, body |-> {}]

Response(op, u, id, code, body) ==
    [op |-> op, user |-> u, id |-> id, code |-> code, body |-> body]

\* the database before any request: p1 offers one service
SeedServices ==
    [i \in ServiceIds |->
        IF i = 1 THEN [provider |-> "p1", is_active |-> TRUE, is_available |-> TRUE,
                         base_price |-> 2]
        ELSE NoService]

\* the body of no request
NoReq == [kind |-> "none"]

\* the card option on sale: PrepaidCardOption 1 of service 1
CardOption == [service |-> 1, total_units |-> 2, price |-> 3, is_active |-> TRUE]

OptionIds == 1..MaxOptions
NoOption == [service |-> Null]
SeedOptions == [i \in OptionIds |-> IF i = 1 THEN CardOption ELSE NoOption]

\* token values of the EmailVerificationToken rows; UnknownToken is the value of no row
TokenValues == 1..MaxTokens
UnknownToken == MaxTokens + 1
NoToken == [user |-> "none"]

InitAuth ==
    /\ emailVerified = [u \in Users |-> FALSE]
    /\ emailTokens = [t \in TokenValues |-> NoToken]
    /\ phoneVerified = [u \in Users |-> FALSE]
    /\ phoneTokens = [t \in TokenValues |-> NoToken]
    /\ phoneWrong = [t \in TokenValues |-> 0]
    /\ resetTokens = <<>>
    /\ loginAttempts = <<>>

InitExt ==
    /\ req = NoReq
    /\ options = SeedOptions
    /\ refunds = <<>>
    /\ InitAuth

InitSub ==
    /\ now = 1
    /\ sub = NoSub
    /\ subRet = NoRet
    /\ wk = [w \in Workers |-> IdleWorker]

Init ==
    /\ InitSub
    /\ resp = NoResp
    /\ services = SeedServices
    /\ orders = [i \in OrderIds |-> NoOrder]
    /\ history = <<>>
    /\ wallets = [u \in Users |-> NoWallet]
    /\ cards = [i \in CardIds |-> NoCard]
    /\ usage = <<>>
    /\ payments = <<>>
    /\ InitExt

(***************************************************************************)
(* Requests on a subscription processed one at a time: each loads the row, *)
(* calls the method and (inside the method) saves.                         *)
(***************************************************************************)
\* Subscription.objects.create(total_units = total, ...)
CreateSubscription ==
    \E total \in 0..MaxUnits :
        /\ sub = NoSub
        /\ sub' = SubSave(NewSubscription(total))
        /\ subRet' = [op |-> "create", ok |-> TRUE]
        /\ UNCHANGED <<now, wk, httpVars, extVars>>

UseUnits ==
    \E q \in (0 - MaxNegQty)..MaxQty :
        /\ sub # NoSub
        /\ sub.used_units + q >= 0 - MaxUnits    \* cap of the model: a negative quantity refills without limit
        /\ LET r == SubUseUnits(sub, q)
           IN  /\ sub' = r.obj
               /\ subRet' = [op |-> "use_units", ok |-> r.ok]
        /\ UNCHANGED <<now, wk, httpVars, extVars>>

Pause ==
    /\ sub # NoSub
    /\ LET r == SubPause(sub)
       IN  /\ sub' = r.obj
           /\ subRet' = [op |-> "pause", ok |-> r.ok]
    /\ UNCHANGED <<now, wk, httpVars, extVars>>

Resume ==
    /\ sub # NoSub
    /\ LET r == SubResume(sub)
       IN  /\ sub' = r.obj
           /\ subRet' = [op |-> "resume", ok |-> r.ok]
    /\ UNCHANGED <<now, wk, httpVars, extVars>>

Cancel ==
    /\ sub # NoSub
    /\ LET r == SubCancel(sub)
       IN  /\ sub' = r.obj
           /\ subRet' = [op |-> "cancel", ok |-> r.ok]
    /\ UNCHANGED <<now, wk, httpVars, extVars>>

SubNext == Tick \/ CreateSubscription \/ UseUnits \/ Pause \/ Resume \/ Cancel

SubSpec == Init /\ [][SubNext]_vars

\* C1: after creation, use_units, pause, resume or cancel the stored
\* remaining_units equals total_units - used_units.
C1_RemainingIsTotalMinusUsed ==
    sub # NoSub => sub.remaining_units = sub.total_units - sub.used_units

\* a use_units call has succeeded on a subscription that still has units left
C1_Witness ==
    /\ sub # NoSub
    /\ subRet = [op |-> "use_units", ok |-> TRUE]
    /\ sub.used_units > 0
    /\ sub.remaining_units > 0

\* the Subscription methods that requests call on a stored row
SubMethods == {"use_units", "pause", "resume", "cancel"}

\* C19: a use_units call on an active subscription that brings remaining_units
\* to exactly 0 leaves the row 'completed' with completed_at set by the same
\* save; and no use_units, pause, resume or cancel call moves a subscription
\* that still has remaining_units > 0 to 'completed'.
C19_AutoExhaustion ==
    [][(sub # NoSub /\ subRet'.op \in SubMethods /\ now' = now) =>
          /\ (/\ subRet' = [op |-> "use_units", ok |-> TRUE]
              /\ sub.status = "active"
              /\ sub'.remaining_units = 0)
             => (sub'.status = "completed" /\ sub'.completed_at = now)
          /\ (sub'.remaining_units > 0 /\ sub.status # "completed")
             => sub'.status # "completed"]_vars

\* a use_units call has used the last units of a subscription that had units
\* left, and the row is completed at the time of the call
C19_Witness ==
    /\ sub # NoSub
    /\ subRet = [op |-> "use_units", ok |-> TRUE]
    /\ sub.total_units > 0
    /\ sub.used_units = sub.total_units
    /\ sub.remaining_units = 0
    /\ sub.status = "completed"
    /\ sub.completed_at = now

\* C20: with requests processed one at a time, 0 <= used_units <= total_units
\* holds after every call, and no call (use_units with a zero or negative
\* quantity included) lowers used_units.
C20_NeverOverdrawnOrRefilled ==
    [][(sub # NoSub /\ subRet'.op \in SubMethods /\ now' = now) =>
          /\ 0 <= sub'.used_units
          /\ sub'.used_units <= sub'.total_units
          /\ sub'.used_units >= sub.used_units]_vars

(***************************************************************************)
(* Two requests in flight on the same subscription.  A request first reads *)
(* the row into an instance (get_object / objects.get), then runs          *)
(* use_units on that instance; save() writes every column of the instance. *)
(* Nothing locks the row between the two steps.                            *)
(***************************************************************************)
RaceCreate ==
    \E total \in 1..MaxUnits :
        /\ sub = NoSub
        /\ sub' = SubSave(NewSubscription(total))
        /\ UNCHANGED <<now, subRet, wk, httpVars, extVars>>

WkLoad(w) ==
    \E q \in 1..MaxQty :
        /\ sub # NoSub
        /\ wk[w].pc = "idle"
        /\ wk' = [wk EXCEPT ![w] = [pc |-> "loaded", qty |-> q, ok |-> FALSE, inst |-> sub]]
        /\ UNCHANGED <<now, sub, subRet, httpVars, extVars>>

WkUseUnits(w) ==
    /\ wk[w].pc = "loaded"
    /\ LET r == SubUseUnits(wk[w].inst, wk[w].qty)
       IN  /\ sub' = IF r.ok THEN r.obj ELSE sub
           /\ wk' = [wk EXCEPT ![w] = [pc |-> "done", qty |-> wk[w].qty,
                                       ok |-> r.ok, inst |-> r.obj]]
    /\ UNCHANGED <<now, subRet, httpVars, extVars>>

RaceNext == Tick \/ RaceCreate \/ (\E w \in Workers : WkLoad(w) \/ WkUseUnits(w))

RaceSpec == Init /\ [][RaceNext]_vars

RECURSIVE SumOk(_)
SumOk(S) ==
    IF S = {} THEN 0
    ELSE LET w == CHOOSE x \in S : TRUE
         IN  (IF wk[w].pc = "done" /\ wk[w].ok THEN wk[w].qty ELSE 0) + SumOk(S \ {w})

\* units handed out: the quantities of the use_units calls that returned success
HandedOut == SumOk(Workers)

\* C2: simultaneous use_units calls can overdraw: calls whose combined quantity
\* exceeds total_units all return success, and the overdraw shows as a lost
\* decrement (the stored used_units is below the units handed out and still
\* within total_units, with remaining_units consistent).
C2_OverdrawIsLostDecrement ==
    (sub # NoSub /\ HandedOut > sub.total_units) =>
        /\ sub.used_units < HandedOut
        /\ sub.used_units <= sub.total_units
        /\ sub.remaining_units = sub.total_units - sub.used_units

\* both calls returned success although their combined quantity exceeds the
\* units that remained when they started
C2_Witness ==
    /\ sub # NoSub
    /\ \A w \in Workers : wk[w].pc = "done" /\ wk[w].ok
    /\ HandedOut > sub.total_units

(***************************************************************************)
(* ServiceViewSet (services/views.py): a ModelViewSet guarded by           *)
(* IsAuthenticatedOrReadOnly.  DRF checks the permission before the        *)
(* handler runs, then get_object looks the row up in get_queryset (404),   *)
(* then the serializer validates (400), then the row is written.           *)
(***************************************************************************)
\* request bodies for ServiceSerializer: rejected by validation, or the values
\* of the writable flags
ServicePayloads ==
    {[valid |-> FALSE, is_active |-> TRUE, is_available |-> TRUE]} \cup
    [valid : {TRUE}, is_active : BOOLEAN, is_available : BOOLEAN]

\* the users that call the services endpoints
ServiceCallers == {Anon, "c1", "p1", "p2", "a1"}

\* ServiceViewSet.get_queryset
ServiceVisible(u, id) ==
    /\ services[id] # NoService
    /\ IF u # Anon /\ Role(u) = "provider"
       THEN services[id].provider = u
       ELSE services[id].is_active /\ services[id].is_available

\* IsAuthenticatedOrReadOnly.has_permission for an unsafe method; a request
\* without credentials is answered 401 (the authenticator is JWT based and
\* sends WWW-Authenticate)
WriteAllowedForAnyone(u) == TRUE
WriteAllowed(u) == u # Anon

ServiceList(u) ==
    /\ resp' = Response("list", u, 0, 200, {i \in ServiceIds : ServiceVisible(u, i)})
    /\ UNCHANGED <<now, subVars, services, orders, history, wallets, cards, usage, payments, extVars>>

ServiceRetrieve(u, id) ==
    /\ resp' = IF ServiceVisible(u, id) THEN Response("retrieve", u, id, 200, {id})
               ELSE Response("retrieve", u, id, 404, {})
    /\ UNCHANGED <<now, subVars, services, orders, history, wallets, cards, usage, payments, extVars>>

\* create + perform_create: ServiceProvider.objects.get(user = request.user)
\* is not guarded, so DoesNotExist leaves the view as an unhandled exception (500)
ServiceCreate(u) ==
    \E data \in ServicePayloads :
        IF ~WriteAllowed(u) THEN
            /\ resp' = Response("create", u, 0, 401, {})
            /\ UNCHANGED services
        ELSE IF ~data.valid THEN
            /\ resp' = Response("create", u, 0, 400, {})
            /\ UNCHANGED services
        ELSE IF ~HasProviderProfile(u) THEN
            /\ resp' = Response("create", u, 0, 500, {})
            /\ UNCHANGED services
        ELSE
            /\ \E i \in ServiceIds : services[i] = NoService
            /\ LET id == CHOOSE i \in ServiceIds :
                            /\ services[i] = NoService
                            /\ \A j \in ServiceIds : services[j] = NoService => i <= j
               IN  /\ services' = [services EXCEPT ![id] =
                            [provider |-> u, is_active |-> data.is_active,
                             is_available |-> data.is_available, base_price |-> 2]]
                   /\ resp' = Response("create", u, id, 201, {id})

ServiceCreateReq(u) ==
    /\ ServiceCreate(u)
    /\ UNCHANGED <<now, subVars, orders, history, wallets, cards, usage, payments, extVars>>

\* update (PUT): the body carries every field
ServiceUpdate(u, id) ==
    \E data \in ServicePayloads :
        IF ~WriteAllowed(u) THEN
            /\ resp' = Response("update", u, id, 401, {})
            /\ UNCHANGED services
        ELSE IF ~ServiceVisible(u, id) THEN
            /\ resp' = Response("update", u, id, 404, {})
            /\ UNCHANGED services
        ELSE IF ~data.valid THEN
            /\ resp' = Response("update", u, id, 400, {})
            /\ UNCHANGED services
        ELSE
            /\ services' = [services EXCEPT ![id].is_active = data.is_active,
                                            ![id].is_available = data.is_available]
            /\ resp' = Response("update", u, id, 200, {id})

\* partial_update (PATCH): the body carries one field
ServicePartialUpdate(u, id) ==
    \E field \in {"is_active", "is_available"}, value \in BOOLEAN :
        IF ~WriteAllowed(u) THEN
            /\ resp' = Response("partial_update", u, id, 401, {})
            /\ UNCHANGED services
        ELSE IF ~ServiceVisible(u, id) THEN
            /\ resp' = Response("partial_update", u, id, 404, {})
            /\ UNCHANGED services
        ELSE
            /\ services' = IF field = "is_active"
                           THEN [services EXCEPT ![id].is_active = value]
                           ELSE [services EXCEPT ![id].is_available = value]
            /\ resp' = Response("partial_update", u, id, 200, {id})

ServiceUpdateReq(u, id) ==
    /\ ServiceUpdate(u, id) \/ ServicePartialUpdate(u, id)
    /\ UNCHANGED <<now, subVars, orders, history, wallets, cards, usage, payments, extVars>>

\* destroy (DELETE)
ServiceDestroy(u, id) ==
    IF ~WriteAllowed(u) THEN
        /\ resp' = Response("destroy", u, id, 401, {})
        /\ UNCHANGED services
    ELSE IF ~ServiceVisible(u, id) THEN
        /\ resp' = Response("destroy", u, id, 404, {})
        /\ UNCHANGED services
    ELSE
        /\ services' = [services EXCEPT ![id] = NoService]
        /\ resp' = Response("destroy", u, id, 204, {})

ServiceDestroyReq(u, id) ==
    /\ ServiceDestroy(u, id)
    /\ UNCHANGED <<now, subVars, orders, history, wallets, cards, usage, payments, extVars>>

ServiceNext ==
    \E u \in ServiceCallers :
        \/ ServiceList(u)
        \/ ServiceCreateReq(u)
        \/ \E id \in ServiceIds :
              ServiceRetrieve(u, id) \/ ServiceUpdateReq(u, id) \/ ServiceDestroyReq(u, id)

ServiceSpec == Init /\ [][ServiceNext]_vars

ServiceWrites == {"create", "update", "partial_update", "destroy"}

\* C4: a write request (update, partial update, delete) on a service by an
\* authenticated user who is not the service's provider is refused and leaves
\* the stored services unchanged.  The claim names 403 as the refusal; the
\* formula accepts any 4xx answer, so that only a write that is carried out
\* violates it.
C4_OnlyOwnerWrites ==
    [][(/\ resp'.op \in {"update", "partial_update", "destroy"}
        /\ resp'.user # Anon
        /\ services[resp'.id] # NoService
        /\ services[resp'.id].provider # resp'.user)
       => (resp'.code \in 400..499 /\ services' = services)]_vars

\* C5: a request without credentials lists and retrieves the active, available
\* services with 200; every write it sends is answered 401; it never changes
\* the stored services.
C5_AnonymousReadOnly ==
    [][resp'.user = Anon =>
        /\ services' = services
        /\ resp'.op \in ServiceWrites => resp'.code = 401
        /\ resp'.op = "list" =>
              /\ resp'.code = 200
              /\ resp'.body = {i \in ServiceIds : /\ services[i] # NoService
                                                 /\ services[i].is_active
                                                 /\ services[i].is_available}
        /\ (/\ resp'.op = "retrieve"
            /\ services[resp'.id] # NoService
            /\ services[resp'.id].is_active
            /\ services[resp'.id].is_available) => resp'.code = 200]_vars

\* an anonymous write on a stored, publicly visible service was answered 401
C5_Witness ==
    /\ resp.user = Anon
    /\ resp.op \in {"update", "partial_update", "destroy"}
    /\ resp.code = 401
    /\ services[resp.id] # NoService
    /\ services[resp.id].is_active /\ services[resp.id].is_available

(***************************************************************************)
(* OrderViewSet (orders/views.py), guarded by IsAuthenticated              *)
(***************************************************************************)
\* Order.ORDER_STATUS (orders/models.py)
ORDER_STATUS == {"pending", "paid", "in_progress", "delivered", "completed",
                 "cancelled", "refunded", "disputed"}

\* the status values requests carry: four of the choices, and two values that
\* are not among Order.ORDER_STATUS
StatusInputs == {"pending", "paid", "completed", "cancelled", "confirmed", "processing"}

\* OrderViewSet.get_queryset
OrderVisibleToProviders(u, id) ==
    /\ orders[id] # NoOrder
    /\ IF Role(u) \in {"admin", "provider"} THEN TRUE
       ELSE orders[id].customer = u
OrderVisible(u, id) ==
    /\ id \in OrderIds
    /\ orders[id] # NoOrder
    /\ IF Role(u) = "admin" THEN TRUE
       ELSE IF Role(u) = "provider"
            THEN /\ services[orders[id].service] # NoService
                 /\ services[orders[id].service].provider = u
       ELSE orders[id].customer = u

\* Order.cancel: a pending or confirmed order becomes cancelled
OrderCancelMethod(o) ==
    IF o.status \in {"pending", "confirmed"}
    THEN [ok |-> TRUE, obj |-> [o EXCEPT !.status = "cancelled", !.cancelled_at = now]]
    ELSE [ok |-> FALSE, obj |-> o]

\* create + perform_create.  The module never imports the name "serializers",
\* so both raise statements of perform_create end in a NameError (500).
OrderCreate(u) ==
    \E sid \in ServiceIds \cup {UnknownId}, quantity \in {0, 1}, valid \in BOOLEAN :
        IF u = Anon THEN
            /\ resp' = Response("order_create", u, 0, 401, {})
            /\ UNCHANGED orders
        ELSE IF ~valid \/ quantity <= 0 THEN
            /\ resp' = Response("order_create", u, 0, 400, {})
            /\ UNCHANGED orders
        ELSE IF sid \notin ServiceIds \/ services[sid] = NoService THEN
            /\ resp' = Response("order_create", u, 0, 500, {})
            /\ UNCHANGED orders
        ELSE IF ~services[sid].is_available THEN
            /\ resp' = Response("order_create", u, 0, 500, {})
            /\ UNCHANGED orders
        ELSE
            /\ \E i \in OrderIds : orders[i] = NoOrder
            /\ LET id == CHOOSE i \in OrderIds : orders[i] = NoOrder
               IN  /\ orders' = [orders EXCEPT ![id] =
                          [customer |-> u, service |-> sid, status |-> "pending",
                           total_amount |-> services[sid].base_price * quantity,
                           confirmed_at |-> Null, completed_at |-> Null,
                           cancelled_at |-> Null]]
                   /\ resp' = Response("order_create", u, id, 201, {})

OrderCreateReq(u) ==
    /\ OrderCreate(u)
    /\ UNCHANGED <<now, subVars, services, history, wallets, cards, usage, payments, extVars>>

\* update_status
OrderUpdateStatus(u, id) ==
    \E new \in StatusInputs :
        IF u = Anon THEN
            /\ resp' = Response("update_status", u, id, 401, {})
            /\ UNCHANGED <<orders, history>>
        ELSE IF ~OrderVisible(u, id) THEN
            /\ resp' = Response("update_status", u, id, 404, {})
            /\ UNCHANGED <<orders, history>>
        ELSE IF new \notin ORDER_STATUS THEN
            /\ resp' = Response("update_status", u, id, 400, {})
            /\ UNCHANGED <<orders, history>>
        ELSE
            /\ Len(history) < MaxHistory
            /\ history' = Append(history,
                    [order |-> id, from_status |-> orders[id].status,
                     to_status |-> new, changed_by |-> u])
            /\ orders' = [orders EXCEPT
                    ![id].status = new,
                    ![id].confirmed_at =
                        IF new = "confirmed" /\ orders[id].status = "pending"
                        THEN now ELSE @,
                    ![id].completed_at =
                        IF ~(new = "confirmed" /\ orders[id].status = "pending")
                           /\ new = "completed"
                        THEN now ELSE @,
                    ![id].cancelled_at =
                        IF ~(new = "confirmed" /\ orders[id].status = "pending")
                           /\ new # "completed" /\ new = "cancelled"
                        THEN now ELSE @]
            /\ resp' = Response("update_status", u, id, 200, {})

OrderUpdateStatusReq(u, id) ==
    /\ OrderUpdateStatus(u, id)
    /\ UNCHANGED <<now, subVars, services, wallets, cards, usage, payments, extVars>>

\* the OrderStatusHistory row written by cancel after order.cancel() succeeded
\* (o is the order as cancel() left it)
CancelHistoryRowSwapped(u, id, o) ==
    [order |-> id, from_status |-> "cancelled",
     to_status |-> IF o.status = "cancelled" THEN "pending" ELSE o.status,
     changed_by |-> u]
CancelHistoryRow(u, id, o) ==
    [order |-> id,
     from_status |-> IF o.status = "cancelled" THEN "pending" ELSE o.status,
     to_status |-> "cancelled", changed_by |-> u]

\* cancel
OrderCancel(u, id) ==
    IF u = Anon THEN
        /\ resp' = Response("cancel", u, id, 401, {})
        /\ UNCHANGED <<orders, history>>
    ELSE IF ~OrderVisible(u, id) THEN
        /\ resp' = Response("cancel", u, id, 404, {})
        /\ UNCHANGED <<orders, history>>
    ELSE IF orders[id].customer # u /\ Role(u) # "provider" /\ Role(u) # "admin" THEN
        /\ resp' = Response("cancel", u, id, 403, {})
        /\ UNCHANGED <<orders, history>>
    ELSE
        LET r == OrderCancelMethod(orders[id]) IN
        IF r.ok THEN
            /\ Len(history) < MaxHistory
            /\ orders' = [orders EXCEPT ![id] = r.obj]
            /\ history' = Append(history, CancelHistoryRow(u, id, r.obj))
            /\ resp' = Response("cancel", u, id, 200, {})
        ELSE
            /\ resp' = Response("cancel", u, id, 400, {})
            /\ UNCHANGED <<orders, history>>

OrderCancelReq(u, id) ==
    /\ OrderCancel(u, id)
    /\ UNCHANGED <<now, subVars, services, wallets, cards, usage, payments, extVars>>

OrderNext ==
    \E u \in Users \cup {Anon} :
        \/ OrderCreateReq(u)
        \/ \E id \in OrderIds : OrderUpdateStatusReq(u, id) \/ OrderCancelReq(u, id)

OrderSpec == Init /\ [][OrderNext]_vars

\* the place of a status in the lifecycle.  The statuses of Order.ORDER_STATUS
\* that the lifecycle of the specification does not name are placed where
\* their names put them (paid with confirmed, in_progress and delivered with
\* processing, disputed with the terminal statuses).
LifecycleRank(st) ==
    CASE st = "pending" -> 0
      [] st \in {"confirmed", "paid"} -> 1
      [] st \in {"processing", "in_progress"} -> 2
      [] st = "delivered" -> 3
      [] OTHER -> 4

TerminalStatus == {"completed", "cancelled", "refunded", "disputed"}

\* C3: the status of an order only moves forward along the lifecycle
\* pending -> confirmed -> processing -> completed / cancelled / refunded:
\* no update_status or cancel request moves it backwards or out of a
\* terminal status.
C3_StatusMovesForward ==
    [][\A id \in OrderIds :
        (/\ orders[id] # NoOrder
         /\ orders'[id] # NoOrder
         /\ orders'[id].status # orders[id].status)
        => /\ orders[id].status \notin TerminalStatus
           /\ LifecycleRank(orders[id].status) < LifecycleRank(orders'[id].status)]_vars

OrderParty(u, id) ==
    \/ orders[id].customer = u
    \/ /\ services[orders[id].service] # NoService
       /\ services[orders[id].service].provider = u
    \/ Role(u) = "admin"

\* C9: a cancel or update_status request on an order by an authenticated user
\* who is neither its customer, nor the provider of its service, nor an admin
\* is refused with 403 or 404 and changes neither the order nor its history.
C9_OnlyPartiesChangeOrder ==
    [][(/\ resp'.op \in {"cancel", "update_status"}
        /\ resp'.user # Anon
        /\ resp'.id \in OrderIds
        /\ orders[resp'.id] # NoOrder
        /\ ~OrderParty(resp'.user, resp'.id))
       => (/\ resp'.code \in {403, 404}
           /\ orders' = orders
           /\ history' = history)]_vars

\* a provider whose services the order does not concern asked to cancel it
C9_Witness ==
    /\ resp.op = "cancel"
    /\ resp.user = "p2"
    /\ resp.code = 404
    /\ orders[resp.id] # NoOrder
    /\ orders[resp.id].customer = "c1"
    /\ orders[resp.id].status = "pending"

(***************************************************************************)
(* PrepaidCardViewSet (services/views.py), guarded by IsAuthenticated.     *)
(* The PrepaidCard model itself (save, use_units, cancel) follows the unit *)
(* bookkeeping of Subscription.                                            *)
(***************************************************************************)
\* PrepaidCard.save: recompute remaining_units; a card without units left is exhausted
CardSave(c) ==
    LET r == [c EXCEPT !.remaining_units = c.total_units - c.used_units]
    IN  IF r.remaining_units = 0 /\ r.status = "active"
        THEN [r EXCEPT !.status = "exhausted", !.exhausted_at = now]
        ELSE r

\* PrepaidCard.use_units
CardUseUnitsMethod(c, q) ==
    IF c.status # "active" THEN [ok |-> FALSE, obj |-> c]
    ELSE IF c.remaining_units < q THEN [ok |-> FALSE, obj |-> c]
    ELSE [ok |-> TRUE,
          obj |-> CardSave([c EXCEPT !.used_units = c.used_units + q,
                                     !.last_used_at = now])]

\* PrepaidCard.cancel
CardCancelMethod(c) ==
    IF c.status = "active"
    THEN [ok |-> TRUE, obj |-> CardSave([c EXCEPT !.status = "cancelled",
                                                  !.cancelled_at = now])]
    ELSE [ok |-> FALSE, obj |-> c]

\* PrepaidCardViewSet.get_queryset
CardVisibleToAll(u, id) == id \in CardIds /\ cards[id] # NoCard
CardVisible(u, id) ==
    /\ id \in CardIds
    /\ cards[id] # NoCard
    /\ IF Role(u) = "admin" THEN TRUE ELSE cards[id].customer = u

\* create + perform_create (the serializer rejects an unknown or inactive option)
CardCreate(u) ==
    \E option_known \in BOOLEAN :
        IF u = Anon THEN
            /\ resp' = Response("card_create", u, 0, 401, {})
            /\ UNCHANGED cards
        ELSE IF ~option_known \/ ~CardOption.is_active
                \/ services[CardOption.service] = NoService
                \/ ~services[CardOption.service].is_available THEN
            /\ resp' = Response("card_create", u, 0, 400, {})
            /\ UNCHANGED cards
        ELSE
            /\ \E i \in CardIds : cards[i] = NoCard
            /\ LET id == CHOOSE i \in CardIds : cards[i] = NoCard
               IN  /\ cards' = [cards EXCEPT ![id] = CardSave(
                          [customer |-> u, status |-> "active",
                           total_units |-> CardOption.total_units, used_units |-> 0,
                           remaining_units |-> 0, total_amount |-> CardOption.price,
                           last_used_at |-> Null, exhausted_at |-> Null,
                           cancelled_at |-> Null])]
                   /\ resp' = Response("card_create", u, id, 201, {})

CardCreateReq(u) ==
    /\ CardCreate(u)
    /\ UNCHANGED <<now, subVars, services, orders, history, wallets, usage, payments, extVars>>

\* retrieve
CardRetrieve(u, id) ==
    /\ resp' = IF u = Anon THEN Response("card_retrieve", u, id, 401, {})
               ELSE IF ~CardVisible(u, id) THEN Response("card_retrieve", u, id, 404, {})
               ELSE Response("card_retrieve", u, id, 200, {id})
    /\ UNCHANGED <<now, subVars, services, orders, history, wallets, cards, usage, payments, extVars>>

\* usage_history
CardUsageHistory(u, id) ==
    /\ resp' = IF u = Anon THEN Response("card_usage_history", u, id, 401, {})
               ELSE IF ~CardVisible(u, id)
                    THEN Response("card_usage_history", u, id, 404, {})
               ELSE Response("card_usage_history", u, id, 200,
                             {k \in 1..Len(usage) : usage[k].card = id})
    /\ UNCHANGED <<now, subVars, services, orders, history, wallets, cards, usage, payments, extVars>>

\* use_units: units 0 stands for a body UseCardSerializer rejects (min_value 0.01)
CardUseUnits(u, id) ==
    \E units \in 0..MaxQty :
        IF u = Anon THEN
            /\ resp' = Response("card_use_units", u, id, 401, {})
            /\ UNCHANGED <<cards, usage>>
        ELSE IF ~CardVisible(u, id) THEN
            /\ resp' = Response("card_use_units", u, id, 404, {})
            /\ UNCHANGED <<cards, usage>>
        ELSE IF units < 1 THEN
            /\ resp' = Response("card_use_units", u, id, 400, {})
            /\ UNCHANGED <<cards, usage>>
        ELSE
            LET r == CardUseUnitsMethod(cards[id], units) IN
            IF ~r.ok THEN
                /\ resp' = Response("card_use_units", u, id, 400, {})
                /\ UNCHANGED <<cards, usage>>
            ELSE
                /\ Len(usage) < MaxUsage
                /\ cards' = [cards EXCEPT ![id] = r.obj]
                /\ usage' = Append(usage, [card |-> id, units_used |-> units,
                                           marked_by |-> u])
                /\ resp' = Response("card_use_units", u, id, 200, {id})

CardUseUnitsReq(u, id) ==
    /\ CardUseUnits(u, id)
    /\ UNCHANGED <<now, subVars, services, orders, history, wallets, payments, extVars>>

\* cancel
CardCancel(u, id) ==
    IF u = Anon THEN
        /\ resp' = Response("card_cancel", u, id, 401, {})
        /\ UNCHANGED <<cards, usage>>
    ELSE IF ~CardVisible(u, id) THEN
        /\ resp' = Response("card_cancel", u, id, 404, {})
        /\ UNCHANGED <<cards, usage>>
    ELSE
        LET r == CardCancelMethod(cards[id]) IN
        /\ cards' = [cards EXCEPT ![id] = r.obj]
        /\ resp' = Response("card_cancel", u, id, IF r.ok THEN 200 ELSE 400, {})
        /\ UNCHANGED usage

CardCancelReq(u, id) ==
    /\ CardCancel(u, id)
    /\ UNCHANGED <<now, subVars, services, orders, history, wallets, payments, extVars>>

\* destroy (DELETE); the CardUsage rows of the card go with it
CardDestroy(u, id) ==
    IF u = Anon THEN
        /\ resp' = Response("card_destroy", u, id, 401, {})
        /\ UNCHANGED <<cards, usage>>
    ELSE IF ~CardVisible(u, id) THEN
        /\ resp' = Response("card_destroy", u, id, 404, {})
        /\ UNCHANGED <<cards, usage>>
    ELSE
        /\ \A k \in 1..Len(payments) : payments[k].prepaid_card # id
        /\ cards' = [cards EXCEPT ![id] = NoCard]
        /\ usage' = SelectSeq(usage, LAMBDA row : row.card # id)
        /\ resp' = Response("card_destroy", u, id, 204, {})

CardDestroyReq(u, id) ==
    /\ CardDestroy(u, id)
    /\ UNCHANGED <<now, subVars, services, orders, history, wallets, payments, extVars>>

CardNext ==
    \E u \in Users \cup {Anon} :
        \/ CardCreateReq(u)
        \/ \E id \in CardIds :
              \/ CardRetrieve(u, id)
              \/ CardUsageHistory(u, id)
              \/ CardUseUnitsReq(u, id)
              \/ CardCancelReq(u, id)
              \/ CardDestroyReq(u, id)

CardSpec == Init /\ [][CardNext]_vars

CardDetailOps == {"card_retrieve", "card_usage_history", "card_use_units",
                  "card_cancel", "card_destroy"}

\* C10: a retrieve, usage_history, use_units, cancel or delete request of a
\* non-admin user on a prepaid card whose customer is another user is answered
\* 404, returns nothing of the card and changes neither the card (used_units,
\* status) nor its usage rows.
C10_OnlyOwnCards ==
    [][(/\ resp'.op \in CardDetailOps
        /\ resp'.user # Anon
        /\ Role(resp'.user) # "admin"
        /\ cards[resp'.id] # NoCard
        /\ cards[resp'.id].customer # resp'.user)
       => (/\ resp'.code = 404
           /\ resp'.body = {}
           /\ cards' = cards
           /\ usage' = usage)]_vars

\* another customer asked to use units of a card that is active and has units left
C10_Witness ==
    /\ resp.op = "card_use_units"
    /\ resp.user = "c2"
    /\ resp.code = 404
    /\ cards[resp.id] # NoCard
    /\ cards[resp.id].customer = "c1"
    /\ cards[resp.id].status = "active"
    /\ cards[resp.id].used_units > 0

(***************************************************************************)
(* WalletViewSet (payments/views.py): a ReadOnlyModelViewSet guarded by    *)
(* IsAuthenticated.  A wallet is identified by its user (one to one); the  *)
(* body of a response is the set of owners of the wallets it shows.        *)
(***************************************************************************)
\* WalletViewSet.get_queryset
WalletVisible(u, w) == wallets[w] # NoWallet /\ w = u

WalletList(u) ==
    /\ resp' = IF u = Anon THEN Response("wallet_list", u, 0, 401, {})
               ELSE Response("wallet_list", u, 0, 200,
                             {w \in Users : WalletVisible(u, w)})
    /\ UNCHANGED <<now, subVars, services, orders, history, wallets, cards, usage, payments, extVars>>

WalletRetrieve(u, w) ==
    /\ resp' = IF u = Anon THEN Response("wallet_retrieve", u, 0, 401, {})
               ELSE IF ~WalletVisible(u, w) THEN Response("wallet_retrieve", u, 0, 404, {})
               ELSE Response("wallet_retrieve", u, 0, 200, {w})
    /\ UNCHANGED <<now, subVars, services, orders, history, wallets, cards, usage, payments, extVars>>

\* my_wallet: Wallet.objects.get_or_create(user = request.user)
MyWalletResets(u) ==
    IF u = Anon THEN
        /\ resp' = Response("my_wallet", u, 0, 401, {})
        /\ UNCHANGED wallets
    ELSE
        /\ wallets' = [wallets EXCEPT ![u] = [balance |-> 0]]
        /\ resp' = Response("my_wallet", u, 0, 200, {u})
MyWallet(u) ==
    IF u = Anon THEN
        /\ resp' = Response("my_wallet", u, 0, 401, {})
        /\ UNCHANGED wallets
    ELSE
        /\ wallets' = IF wallets[u] = NoWallet
                      THEN [wallets EXCEPT ![u] = [balance |-> 0]]
                      ELSE wallets
        /\ resp' = Response("my_wallet", u, 0, 200, {u})

MyWalletReq(u) ==
    /\ MyWallet(u)
    /\ UNCHANGED <<now, subVars, services, orders, history, cards, usage, payments, extVars>>

\* transactions: Wallet.objects.get(user = request.user) is not guarded, so a
\* user without a wallet gets an unhandled Wallet.DoesNotExist (500)
WalletTransactions(u) ==
    /\ resp' = IF u = Anon THEN Response("transactions", u, 0, 401, {})
               ELSE IF wallets[u] = NoWallet THEN Response("transactions", u, 0, 500, {})
               ELSE Response("transactions", u, 0, 200, {u})
    /\ UNCHANGED <<now, subVars, services, orders, history, wallets, cards, usage, payments, extVars>>

WalletNext ==
    \E u \in Users \cup {Anon} :
        \/ WalletList(u)
        \/ MyWalletReq(u)
        \/ WalletTransactions(u)
        \/ \E w \in Users : WalletRetrieve(u, w)

\* the wallets the database may hold: any user may have one, with any balance
WalletInit ==
    /\ InitSub
    /\ resp = NoResp
    /\ services = SeedServices
    /\ orders = [i \in OrderIds |-> NoOrder]
    /\ history = <<>>
    /\ wallets \in [Users -> {NoWallet} \cup [balance : 0..MaxBalance]]
    /\ cards = [i \in CardIds |-> NoCard]
    /\ usage = <<>>
    /\ payments = <<>>
    /\ InitExt

WalletSpec == WalletInit /\ [][WalletNext]_vars

\* C7: a request to the wallet endpoints leaves every existing wallet as it is
\* (balance included); the only change it can make is my_wallet creating the
\* caller's missing wallet; and a response shows no wallet but the caller's.
C7_WalletEndpointsReadOnly ==
    [][/\ \A w \in Users : wallets[w] # NoWallet => wallets'[w] = wallets[w]
       /\ \A w \in Users :
             wallets'[w] # wallets[w] => (resp'.op = "my_wallet" /\ resp'.user = w)
       /\ resp'.body \subseteq {resp'.user}]_vars

\* my_wallet answered a user whose wallet holds a balance
C7_Witness ==
    /\ resp.op = "my_wallet"
    /\ resp.code = 200
    /\ wallets[resp.user] # NoWallet
    /\ wallets[resp.user].balance > 0

(***************************************************************************)
(* PaymentViewSet.create (payments/views.py), guarded by IsAuthenticated   *)
(***************************************************************************)
\* the ids a create-payment body may carry: Null (absent), a stored id, an
\* id of no row
PaymentTargets == {Null, 1, UnknownId}

\* CreatePaymentSerializer.validate
PaymentBodyValidAllowsBoth(order_id, prepaid_card_id) ==
    ~(order_id = Null /\ prepaid_card_id = Null)
PaymentBodyValid(order_id, prepaid_card_id) ==
    /\ ~(order_id = Null /\ prepaid_card_id = Null)
    /\ ~(order_id # Null /\ prepaid_card_id # Null)

\* create + perform_create.  The module imports neither the name
\* "serializers" nor an exception named permissions.PermissionDenied, so each
\* raise statement of perform_create ends in an unhandled exception (500).
PaymentCreate(u) ==
    \E order_id \in PaymentTargets, prepaid_card_id \in PaymentTargets :
        /\ req' = [kind |-> "payment", order_id |-> order_id,
                   prepaid_card_id |-> prepaid_card_id]
        /\ IF u = Anon THEN
               /\ resp' = Response("payment_create", u, 0, 401, {})
               /\ UNCHANGED payments
           ELSE IF ~PaymentBodyValid(order_id, prepaid_card_id) THEN
               /\ resp' = Response("payment_create", u, 0, 400, {})
               /\ UNCHANGED payments
           ELSE IF order_id # Null THEN
               IF order_id \notin OrderIds \/ orders[order_id] = NoOrder THEN
                   /\ resp' = Response("payment_create", u, 0, 500, {})
                   /\ UNCHANGED payments
               ELSE IF orders[order_id].customer # u THEN
                   /\ resp' = Response("payment_create", u, 0, 500, {})
                   /\ UNCHANGED payments
               ELSE
                   /\ Len(payments) < MaxPayments
                   /\ payments' = Append(payments,
                           [customer |-> u, status |-> "pending", order |-> order_id,
                            prepaid_card |-> Null,
                            amount |-> orders[order_id].total_amount])
                   /\ resp' = Response("payment_create", u, Len(payments) + 1, 201, {})
           ELSE
               IF prepaid_card_id \notin CardIds \/ cards[prepaid_card_id] = NoCard THEN
                   /\ resp' = Response("payment_create", u, 0, 500, {})
                   /\ UNCHANGED payments
               ELSE IF cards[prepaid_card_id].customer # u THEN
                   /\ resp' = Response("payment_create", u, 0, 500, {})
                   /\ UNCHANGED payments
               ELSE
                   /\ Len(payments) < MaxPayments
                   /\ payments' = Append(payments,
                           [customer |-> u, status |-> "pending", order |-> Null,
                            prepaid_card |-> prepaid_card_id,
                            amount |-> cards[prepaid_card_id].total_amount])
                   /\ resp' = Response("payment_create", u, Len(payments) + 1, 201, {})

PaymentCreateReq(u) ==
    /\ PaymentCreate(u)
    /\ UNCHANGED <<now, subVars, services, orders, history, wallets, cards, usage,
                   options, refunds, authVars>>

(***************************************************************************)
(* The requests that look a record up by an id or by the caller            *)
(***************************************************************************)
\* the callers followed here: a customer (no ServiceProvider row), a provider,
\* and a request without credentials; none of them has a wallet at first
LookupCallers == {"c1", "p1", Anon}

LookupNext ==
    \E u \in LookupCallers :
        \/ OrderCreateReq(u)
        \/ CardCreateReq(u)
        \/ PaymentCreateReq(u)
        \/ MyWalletReq(u)
        \/ WalletTransactions(u)
        \/ ServiceCreateReq(u)

LookupSpec == Init /\ [][LookupNext]_vars

\* C6: a request that refers to a record that does not exist (an order for an
\* unknown service, a payment for an unknown order or card, the wallet
\* transactions of a user without a wallet, a service created by a user
\* without a ServiceProvider row) ends in a 400 or 404 response, never in an
\* unhandled exception (500).
C6_MissingRecordRecovered ==
    resp.op \in {"order_create", "payment_create", "transactions", "create"}
        => resp.code # 500

\* C6, second half: such a request stores nothing
C6_FailedRequestStoresNothing ==
    [][resp'.code \in {400, 404, 500} =>
        /\ orders' = orders
        /\ payments' = payments
        /\ wallets' = wallets
        /\ services' = services]_vars

(***************************************************************************)
(* PrepaidCardOptionViewSet (services/views.py): a ModelViewSet guarded by *)
(* IsAuthenticated.  Only perform_create is overridden; update and destroy *)
(* are the ModelViewSet defaults on an object of get_queryset.             *)
(***************************************************************************)
OptionCallers == {Anon, "c1", "p1", "p2", "a1"}

\* the provider user of a stored service (service.provider.user)
ServiceOwner(sid) == services[sid].provider

\* PrepaidCardOptionViewSet.get_queryset
OptionVisible(u, id) ==
    /\ options[id] # NoOption
    /\ IF Role(u) = "provider"
       THEN /\ services[options[id].service] # NoService
            /\ ServiceOwner(options[id].service) = u
       ELSE options[id].is_active

\* PrepaidCardOptionCreateSerializer.validate
OptionCreateValid(total_units, price) == total_units > 0 /\ price > 0

\* the ownership test of perform_create
OptionOwner(u, sid) == ServiceOwner(sid) = u

OptionList(u) ==
    /\ resp' = IF u = Anon THEN Response("option_list", u, 0, 401, {})
               ELSE Response("option_list", u, 0, 200,
                             {i \in OptionIds : OptionVisible(u, i)})
    /\ UNCHANGED <<now, subVars, services, orders, history, wallets, cards, usage,
                   payments, extVars>>

\* create + perform_create.  rest_framework.permissions has no name
\* PermissionDenied, so the raise statement of perform_create ends in an
\* AttributeError (500).
OptionCreate(u) ==
    \E sid \in ServiceIds \cup {UnknownId}, total_units \in {0, 2}, price \in {0, 3} :
        IF u = Anon THEN
            /\ resp' = Response("option_create", u, 0, 401, {})
            /\ UNCHANGED options
        ELSE IF sid \notin ServiceIds \/ services[sid] = NoService
                \/ ~OptionCreateValid(total_units, price) THEN
            /\ resp' = Response("option_create", u, 0, 400, {})
            /\ UNCHANGED options
        ELSE IF ~OptionOwner(u, sid) THEN
            /\ resp' = Response("option_create", u, 0, 500, {})
            /\ UNCHANGED options
        ELSE
            /\ \E i \in OptionIds : options[i] = NoOption
            /\ LET id == CHOOSE i \in OptionIds :
                            /\ options[i] = NoOption
                            /\ \A j \in OptionIds : options[j] = NoOption => i <= j
               IN  /\ options' = [options EXCEPT ![id] =
                          [service |-> sid, total_units |-> total_units,
                           price |-> price, is_active |-> TRUE]]
                   /\ resp' = Response("option_create", u, id, 201, {})

OptionCreateReq(u) ==
    /\ OptionCreate(u)
    /\ UNCHANGED <<now, subVars, services, orders, history, wallets, cards, usage,
                   payments, req, refunds, authVars>>

\* partial_update (PATCH) with PrepaidCardOptionSerializer: is_active and price
\* are writable
OptionPartialUpdate(u, id) ==
    \E field \in {"is_active", "price"}, flag \in BOOLEAN, price \in {1, 3} :
        IF u = Anon THEN
            /\ resp' = Response("option_update", u, id, 401, {})
            /\ UNCHANGED options
        ELSE IF ~OptionVisible(u, id) THEN
            /\ resp' = Response("option_update", u, id, 404, {})
            /\ UNCHANGED options
        ELSE
            /\ options' = IF field = "is_active"
                          THEN [options EXCEPT ![id].is_active = flag]
                          ELSE [options EXCEPT ![id].price = price]
            /\ resp' = Response("option_update", u, id, 200, {})

OptionUpdateReq(u, id) ==
    /\ OptionPartialUpdate(u, id)
    /\ UNCHANGED <<now, subVars, services, orders, history, wallets, cards, usage,
                   payments, req, refunds, authVars>>

\* destroy (DELETE)
OptionDestroy(u, id) ==
    IF u = Anon THEN
        /\ resp' = Response("option_destroy", u, id, 401, {})
        /\ UNCHANGED options
    ELSE IF ~OptionVisible(u, id) THEN
        /\ resp' = Response("option_destroy", u, id, 404, {})
        /\ UNCHANGED options
    ELSE
        /\ options' = [options EXCEPT ![id] = NoOption]
        /\ resp' = Response("option_destroy", u, id, 204, {})

OptionDestroyReq(u, id) ==
    /\ OptionDestroy(u, id)
    /\ UNCHANGED <<now, subVars, services, orders, history, wallets, cards, usage,
                   payments, req, refunds, authVars>>

OptionNext ==
    \E u \in OptionCallers :
        \/ OptionList(u)
        \/ OptionCreateReq(u)
        \/ \E id \in OptionIds : OptionUpdateReq(u, id) \/ OptionDestroyReq(u, id)

\* the database before any request: p1 and p2 each offer a service, and p1's
\* service has one card option on sale
OptionInit ==
    /\ InitSub
    /\ resp = NoResp
    /\ services = [SeedServices EXCEPT ![MaxServices] =
                      [provider |-> "p2", is_active |-> TRUE, is_available |-> TRUE,
                       base_price |-> 2]]
    /\ orders = [i \in OrderIds |-> NoOrder]
    /\ history = <<>>
    /\ wallets = [u \in Users |-> NoWallet]
    /\ cards = [i \in CardIds |-> NoCard]
    /\ usage = <<>>
    /\ payments = <<>>
    /\ InitExt

OptionSpec == OptionInit /\ [][OptionNext]_vars

\* C11: the stored card options change only through a request of the provider
\* who owns the service of the option that is created, updated or deleted; a
\* create, update or delete request of a customer or of another provider
\* leaves the stored options unchanged.
C11_OnlyOwningProviderWritesOptions ==
    [][options' # options =>
          \E i \in OptionIds :
              /\ options'[i] # options[i]
              /\ LET o == IF options[i] # NoOption THEN options[i] ELSE options'[i]
                 IN  ServiceOwner(o.service) = resp'.user]_vars

\* a create request for another provider's service changes nothing
C11_ForeignCreateStoresNothing ==
    [][(resp'.op = "option_create" /\ resp'.code # 201) => options' = options]_vars

(***************************************************************************)
(* PaymentViewSet and RefundViewSet (payments/views.py), both guarded by   *)
(* IsAuthenticated.  Payment ids are the positions in the payments table.  *)
(***************************************************************************)
PaymentCallers == {Anon, "c1", "c2", "a1"}
PaymentIds == 1..MaxPayments
UnknownPayment == MaxPayments + 1

\* the status values a PATCH on a payment carries
PaymentStatusInputs == {"pending", "completed", "failed"}

\* PaymentViewSet.get_queryset
PaymentVisible(u, id) ==
    /\ id \in 1..Len(payments)
    /\ (Role(u) = "admin" \/ payments[id].customer = u)

\* partial_update (PATCH) with PaymentSerializer, in which status is writable
PaymentPartialUpdate(u, id) ==
    \E st \in PaymentStatusInputs :
        IF u = Anon THEN
            /\ resp' = Response("payment_update", u, id, 401, {})
            /\ UNCHANGED payments
        ELSE IF ~PaymentVisible(u, id) THEN
            /\ resp' = Response("payment_update", u, id, 404, {})
            /\ UNCHANGED payments
        ELSE
            /\ payments' = [payments EXCEPT ![id].status = st]
            /\ resp' = Response("payment_update", u, id, 200, {})

PaymentUpdateReq(u, id) ==
    /\ PaymentPartialUpdate(u, id)
    /\ UNCHANGED <<now, subVars, services, orders, history, wallets, cards, usage,
                   extVars>>

\* CreateRefundSerializer.validate_payment_id
RefundPaymentValidAnyStatus(payment_id) == payment_id \in 1..Len(payments)
RefundPaymentValid(payment_id) ==
    /\ payment_id \in 1..Len(payments)
    /\ payments[payment_id].status = "completed"

\* create + perform_create.  rest_framework.permissions has no name
\* PermissionDenied, so the ownership check ends in an AttributeError (500).
RefundCreate(u) ==
    \E payment_id \in PaymentIds \cup {UnknownPayment} :
        /\ req' = [kind |-> "refund", payment_id |-> payment_id]
        /\ IF u = Anon THEN
               /\ resp' = Response("refund_create", u, 0, 401, {})
               /\ UNCHANGED refunds
           ELSE IF ~RefundPaymentValid(payment_id) THEN
               /\ resp' = Response("refund_create", u, 0, 400, {})
               /\ UNCHANGED refunds
           ELSE IF payments[payment_id].customer # u THEN
               /\ resp' = Response("refund_create", u, 0, 500, {})
               /\ UNCHANGED refunds
           ELSE
               /\ Len(refunds) < MaxRefunds
               /\ refunds' = Append(refunds, [payment |-> payment_id])
               /\ resp' = Response("refund_create", u, Len(refunds) + 1, 201, {})

RefundCreateReq(u) ==
    /\ RefundCreate(u)
    /\ UNCHANGED <<now, subVars, services, orders, history, wallets, cards, usage,
                   payments, options, authVars>>

PaymentNext ==
    \E u \in PaymentCallers :
        \/ PaymentCreateReq(u)
        \/ RefundCreateReq(u)
        \/ \E id \in PaymentIds : PaymentUpdateReq(u, id)

\* the database before any payment: customer c1 has placed an order, customer
\* c2 has bought a prepaid card
PaymentInit ==
    /\ InitSub
    /\ resp = NoResp
    /\ services = SeedServices
    /\ orders = [i \in OrderIds |->
                   [customer |-> "c1", service |-> 1, status |-> "pending",
                    total_amount |-> 2, confirmed_at |-> Null, completed_at |-> Null,
                    cancelled_at |-> Null]]
    /\ history = <<>>
    /\ wallets = [u \in Users |-> NoWallet]
    /\ cards = [i \in CardIds |->
                  [customer |-> "c2", status |-> "active",
                   total_units |-> CardOption.total_units, used_units |-> 0,
                   remaining_units |-> CardOption.total_units,
                   total_amount |-> CardOption.price,
                   last_used_at |-> Null, exhausted_at |-> Null, cancelled_at |-> Null]]
    /\ usage = <<>>
    /\ payments = <<>>
    /\ InitExt

PaymentSpec == PaymentInit /\ [][PaymentNext]_vars

\* the Payment row that the last create-payment request added
NewPayment == payments'[Len(payments')]

\* C12: a create-payment request of an authenticated user that names neither
\* an order nor a prepaid card, or both, is answered 400 and stores no
\* Payment; a Payment stored by the endpoint has exactly one of order and
\* prepaid_card set.
C12_PaymentForExactlyOne ==
    [][(resp'.op = "payment_create" /\ resp'.user # Anon) =>
          /\ ((req'.order_id = Null) = (req'.prepaid_card_id = Null))
                => (resp'.code = 400 /\ payments' = payments)
          /\ payments' # payments =>
                /\ Len(payments') = Len(payments) + 1
                /\ (NewPayment.order = Null) # (NewPayment.prepaid_card = Null)]_vars

\* a request naming both an order and a card was answered 400 after a payment
\* for one of them had been stored
C12_Witness ==
    /\ resp.op = "payment_create"
    /\ resp.code = 400
    /\ req.order_id # Null /\ req.prepaid_card_id # Null
    /\ Len(payments) > 0

\* the body of the last create-payment request names an order or a card of
\* another customer than u
NamesForeignTarget(u, body) ==
    \/ /\ body.order_id \in OrderIds /\ body.prepaid_card_id = Null
       /\ orders[body.order_id] # NoOrder
       /\ orders[body.order_id].customer # u
    \/ /\ body.prepaid_card_id \in CardIds /\ body.order_id = Null
       /\ cards[body.prepaid_card_id] # NoCard
       /\ cards[body.prepaid_card_id].customer # u

\* C13: a create-payment request naming another customer's order or card is
\* refused as a permission failure (403) and stores no Payment.
C13_ForeignTargetDenied ==
    [][(/\ resp'.op = "payment_create"
        /\ resp'.user # Anon
        /\ NamesForeignTarget(resp'.user, req'))
       => (resp'.code = 403 /\ payments' = payments)]_vars

\* C13, second half: a Payment stored by the endpoint has customer =
\* requester, status 'pending' and the total_amount of what it pays for; a
\* request naming another customer's order or card stores none
C13_StoredPaymentIsRequesters ==
    [][resp'.op = "payment_create" =>
          /\ NamesForeignTarget(resp'.user, req') => payments' = payments
          /\ payments' # payments =>
                /\ NewPayment.customer = resp'.user
                /\ NewPayment.status = "pending"
                /\ NewPayment.amount =
                      IF NewPayment.order # Null
                      THEN orders[NewPayment.order].total_amount
                      ELSE cards[NewPayment.prepaid_card].total_amount]_vars

\* the payment a refund request names exists, is completed and is the requester's
Refundable(u, payment_id) ==
    /\ payment_id \in 1..Len(payments)
    /\ payments[payment_id].status = "completed"
    /\ payments[payment_id].customer = u

AuthUsers == {"c1", "c2"}

\* lifetime of an EmailVerificationToken (24 hours) in clock ticks
EmailTokenTTL == 1

\* EmailVerificationToken.is_expired
EmailTokenExpired(tok) == now > tok.expires_at

\* EmailVerificationToken.objects.get(token = t, is_used = False) finds a row
EmailTokenLookupAny(t) ==
    /\ t \in TokenValues
    /\ emailTokens[t] # NoToken
EmailTokenLookup(t) ==
    /\ t \in TokenValues
    /\ emailTokens[t] # NoToken
    /\ ~emailTokens[t].is_used

\* UserRegistrationView.post: EmailVerificationToken.objects.create(user = user);
\* save() draws a fresh token value and sets expires_at
IssueEmailToken(u) ==
    /\ \A t \in TokenValues : emailTokens[t] # NoToken => emailTokens[t].user # u
    /\ \E t \in TokenValues :
          /\ emailTokens[t] = NoToken
          /\ emailTokens' = [emailTokens EXCEPT ![t] =
                 [user |-> u, is_used |-> FALSE, expires_at |-> now + EmailTokenTTL]]
    /\ resp' = Response("register", u, 0, 201, {})
    /\ UNCHANGED <<now, subVars, services, orders, history, wallets, cards, usage,
                   payments, req, options, refunds, emailVerified, phoneVerified,
                   phoneTokens, phoneWrong, resetTokens, loginAttempts>>

\* EmailVerificationView.post; a blank token (Null) fails the serializer
VerifyEmail ==
    \E t \in {Null} \cup TokenValues \cup {UnknownToken} :
        /\ req' = [kind |-> "verify_email", token |-> t]
        /\ IF t = Null THEN
               /\ resp' = Response("verify_email", Anon, 0, 400, {"token: required"})
               /\ UNCHANGED <<emailVerified, emailTokens>>
           ELSE IF ~EmailTokenLookup(t) THEN
               /\ resp' = Response("verify_email", Anon, 0, 400,
                                   {"Invalid verification token."})
               /\ UNCHANGED <<emailVerified, emailTokens>>
           ELSE IF EmailTokenExpired(emailTokens[t]) THEN
               /\ resp' = Response("verify_email", Anon, 0, 400,
                                   {"Verification token has expired."})
               /\ UNCHANGED <<emailVerified, emailTokens>>
           ELSE
               /\ emailVerified' = [emailVerified EXCEPT ![emailTokens[t].user] = TRUE]
               /\ emailTokens' = [emailTokens EXCEPT ![t].is_used = TRUE]
               /\ resp' = Response("verify_email", Anon, 0, 200,
                                   {"Email verified successfully."})
        /\ UNCHANGED <<now, subVars, services, orders, history, wallets, cards, usage,
                       payments, options, refunds, phoneVerified, phoneTokens,
                       phoneWrong, resetTokens, loginAttempts>>

EmailNext == Tick \/ VerifyEmail \/ (\E u \in AuthUsers : IssueEmailToken(u))

EmailSpec == Init /\ [][EmailNext]_vars

\* the token of a verification request is a stored, unused, unexpired token
EmailTokenGood(t) ==
    /\ t \in TokenValues
    /\ emailTokens[t] # NoToken
    /\ ~emailTokens[t].is_used
    /\ now <= emailTokens[t].expires_at

\* C15: a verification request with an unknown, used or expired token is
\* answered 400 and changes neither is_email_verified nor the tokens (a used
\* token is answered as invalid); a request with a stored, unused, unexpired
\* token is answered 200, sets the user's is_email_verified and marks the
\* token used.
C15_EmailTokenWorksOnce ==
    [][(resp'.op = "verify_email" /\ now' = now) =>
          LET t == req'.token
          IN  IF EmailTokenGood(t)
              THEN /\ resp'.code = 200
                   /\ emailVerified' =
                         [emailVerified EXCEPT ![emailTokens[t].user] = TRUE]
                   /\ emailTokens' = [emailTokens EXCEPT ![t].is_used = TRUE]
              ELSE /\ resp'.code = 400
                   /\ emailVerified' = emailVerified
                   /\ emailTokens' = emailTokens
                   /\ (t \in TokenValues /\ emailTokens[t] # NoToken
                         /\ emailTokens[t].is_used)
                        => resp'.body = {"Invalid verification token."}]_vars

\* a token that verified its user has been presented again and was rejected
\* as invalid
C15_Witness ==
    /\ resp.op = "verify_email"
    /\ resp.code = 400
    /\ resp.body = {"Invalid verification token."}
    /\ req.token \in TokenValues
    /\ emailTokens[req.token] # NoToken
    /\ emailTokens[req.token].is_used
    /\ emailVerified[emailTokens[req.token].user]

\* an expired token was rejected and its user is still unverified
C15_WitnessExpired ==
    /\ resp.op = "verify_email"
    /\ resp.body = {"Verification token has expired."}
    /\ ~emailVerified[emailTokens[req.token].user]

(***************************************************************************)
(* Phone verification: PhoneVerificationRequestView creates an OTP token,  *)
(* PhoneVerificationConfirmView checks a submitted code against the unused *)
(* tokens of the caller.  One phone number is followed; the 6-digit code   *)
(* of a token is drawn at random, so two tokens may carry the same code.   *)
(***************************************************************************)
PhoneCallers == {Anon, "c1"}

\* PhoneVerificationToken.max_attempts (default)
PhoneMaxAttempts == 3

\* lifetime of a PhoneVerificationToken (10 minutes) in clock ticks
PhoneTokenTTL == 1

\* PhoneVerificationToken.is_expired
PhoneTokenExpired(tok) == now > tok.expires_at

\* PhoneVerificationToken.is_max_attempts_reached
IsMaxAttemptsReached(tok) == tok.attempts >= tok.max_attempts

\* the unused tokens of user u
PhoneTokensOf(u) ==
    {t \in TokenValues : /\ phoneTokens[t] # NoToken
                         /\ phoneTokens[t].user = u
                         /\ ~phoneTokens[t].is_used}

\* the rows of PhoneVerificationToken.objects.get(user, phone_number, token,
\* is_used = False)
PhoneTokenMatches(u, code) == {t \in PhoneTokensOf(u) : phoneTokens[t].token = code}

\* PhoneVerificationRequestView.post
PhoneRequest(u) ==
    /\ IF u = Anon THEN
           /\ resp' = Response("phone_request", u, 0, 401, {})
           /\ UNCHANGED phoneTokens
       ELSE
           \E t \in TokenValues, code \in TokenValues :
               /\ phoneTokens[t] = NoToken
               /\ \A j \in TokenValues : phoneTokens[j] = NoToken => t <= j
               /\ phoneTokens' = [phoneTokens EXCEPT ![t] =
                      [user |-> u, token |-> code, is_used |-> FALSE, attempts |-> 0,
                       max_attempts |-> PhoneMaxAttempts,
                       expires_at |-> now + PhoneTokenTTL]]
               /\ resp' = Response("phone_request", u, t, 200, {})
    /\ UNCHANGED <<now, subVars, services, orders, history, wallets, cards, usage,
                   payments, req, options, refunds, emailVerified, emailTokens,
                   phoneVerified, phoneWrong, resetTokens, loginAttempts>>

\* the history of wrong codes: a request whose code matches no unused token of
\* the caller is a wrong attempt for each of the caller's unused tokens
CountWrong(u, code) ==
    [t \in TokenValues |->
        IF t \in PhoneTokensOf(u) /\ PhoneTokenMatches(u, code) = {}
           /\ phoneWrong[t] < MaxWrongTries
        THEN phoneWrong[t] + 1
        ELSE phoneWrong[t]]

\* PhoneVerificationConfirmView.post.  No statement of the view (or of the
\* model) assigns attempts.
PhoneConfirm(u) ==
    \E code \in TokenValues \cup {UnknownToken} :
        /\ req' = [kind |-> "phone_confirm", code |-> code]
        /\ IF u = Anon THEN
               /\ resp' = Response("phone_confirm", u, 0, 401, {})
               /\ UNCHANGED <<phoneVerified, phoneTokens, phoneWrong>>
           ELSE
               /\ phoneWrong' = CountWrong(u, code)
               /\ IF PhoneTokenMatches(u, code) = {} THEN
                      /\ resp' = Response("phone_confirm", u, 0, 400,
                                          {"Invalid verification code."})
                      /\ UNCHANGED <<phoneVerified, phoneTokens>>
                  ELSE IF Cardinality(PhoneTokenMatches(u, code)) > 1 THEN
                      \* MultipleObjectsReturned is not caught
                      /\ resp' = Response("phone_confirm", u, 0, 500, {})
                      /\ UNCHANGED <<phoneVerified, phoneTokens>>
                  ELSE
                      LET t == CHOOSE x \in PhoneTokenMatches(u, code) : TRUE
                      IN  IF PhoneTokenExpired(phoneTokens[t]) THEN
                              /\ resp' = Response("phone_confirm", u, t, 400,
                                                  {"Verification code has expired."})
                              /\ UNCHANGED <<phoneVerified, phoneTokens>>
                          ELSE IF IsMaxAttemptsReached(phoneTokens[t]) THEN
                              /\ resp' = Response("phone_confirm", u, t, 400,
                                         {"Maximum verification attempts reached."})
                              /\ UNCHANGED <<phoneVerified, phoneTokens>>
                          ELSE
                              /\ phoneVerified' = [phoneVerified EXCEPT ![u] = TRUE]
                              /\ phoneTokens' = [phoneTokens EXCEPT ![t].is_used = TRUE]
                              /\ resp' = Response("phone_confirm", u, t, 200,
                                         {"Phone number verified successfully."})
        /\ UNCHANGED <<now, subVars, services, orders, history, wallets, cards, usage,
                       payments, options, refunds, emailVerified, emailTokens,
                       resetTokens, loginAttempts>>

PhoneNext == Tick \/ (\E u \in PhoneCallers : PhoneRequest(u) \/ PhoneConfirm(u))

PhoneSpec == Init /\ [][PhoneNext]_vars

\* C17: once max_attempts (3) confirmation attempts with a wrong code have
\* been made for a token, a further confirmation attempt for that token is
\* rejected (400) and verifies nothing, also when it carries the token's code.
C17_MaxAttemptsEnforced ==
    [][(/\ resp'.op = "phone_confirm"
        /\ now' = now
        /\ resp'.user # Anon
        /\ \E t \in PhoneTokensOf(resp'.user) :
              /\ phoneWrong[t] >= PhoneMaxAttempts
              /\ phoneTokens[t].token = req'.code)
       => (resp'.code = 400 /\ phoneVerified' = phoneVerified
           /\ phoneTokens' = phoneTokens)]_vars

(***************************************************************************)
(* Login and password reset request (authentication/views.py).  An email   *)
(* address is written as the name of the user it belongs to; "nobody" is a *)
(* well-formed address of no user, "not-an-email" is rejected by           *)
(* EmailField.                                                             *)
(***************************************************************************)
ValidEmails == AuthUsers \cup {"nobody"}
EmailInputs == ValidEmails \cup {"not-an-email"}

\* User.objects.get(email = email) finds a user
EmailRegistered(email) == email \in Users

\* PasswordResetRequestView.post: status and body of the answer to a
\* well-formed email, by the two return statements of the view
PasswordResetRequestRevealing(email) ==
    IF EmailRegistered(email)
    THEN [code |-> 200, body |-> {"Password reset instructions sent to your email."}]
    ELSE [code |-> 404, body |-> {"No user with this email."}]
PasswordResetRequestResponse(email) ==
    IF EmailRegistered(email)
    THEN [code |-> 200, body |-> {"Password reset instructions sent to your email."}]
    ELSE [code |-> 200, body |-> {"Password reset instructions sent to your email."}]

\* lifetime of a PasswordResetToken (1 hour) in clock ticks
ResetTokenTTL == 1

\* PasswordResetRequestView.post
PasswordResetRequest ==
    \E email \in EmailInputs :
        /\ req' = [kind |-> "reset_request", email |-> email]
        /\ IF email \notin ValidEmails THEN
               /\ resp' = Response("reset_request", Anon, 0, 400, {"email: invalid"})
               /\ UNCHANGED resetTokens
           ELSE
               /\ resp' = Response("reset_request", Anon, 0,
                                   PasswordResetRequestResponse(email).code,
                                   PasswordResetRequestResponse(email).body)
               /\ IF EmailRegistered(email)
                  THEN /\ Len(resetTokens) < MaxTokens
                       /\ resetTokens' = Append(resetTokens,
                              [user |-> email, is_used |-> FALSE,
                               expires_at |-> now + ResetTokenTTL])
                  ELSE UNCHANGED resetTokens
        /\ UNCHANGED <<now, subVars, services, orders, history, wallets, cards, usage,
                       payments, options, refunds, emailVerified, emailTokens,
                       phoneVerified, phoneTokens, phoneWrong, loginAttempts>>

\* the credentials a login request carries: the name of a user or of nobody
LoginNames == {"c1", "nobody"}

\* the email field of a login body: absent (""), or an address
LoginEmails == {""} \cup ValidEmails

\* TokenObtainPairSerializer.validate: the credentials authenticate a user
CredentialsValid(username, password_ok) == username \in Users /\ password_ok

\* CustomTokenObtainPairView.post.  TokenObtainPairView.post validates with
\* raise_exception=True: for wrong credentials it raises AuthenticationFailed
\* (answered 401 by the exception handler) and never returns a response, so
\* the else branch of the view is not reached.  After a 200 the user is
\* looked up by the email field of the body; DoesNotExist is not caught.
Login ==
    \E username \in LoginNames, password_ok \in BOOLEAN, email \in LoginEmails :
        /\ req' = [kind |-> "login", username |-> username,
                   password_ok |-> password_ok, email |-> email]
        /\ IF ~CredentialsValid(username, password_ok) THEN
               /\ resp' = Response("login", Anon, 0, 401, {})
               /\ UNCHANGED loginAttempts
           ELSE IF ~EmailRegistered(email) THEN
               /\ resp' = Response("login", Anon, 0, 500, {})
               /\ UNCHANGED loginAttempts
           ELSE
               /\ Len(loginAttempts) < MaxLogins
               /\ loginAttempts' = Append(loginAttempts,
                      [user |-> email, email |-> email, attempt_type |-> "success"])
               /\ resp' = Response("login", Anon, 0, 200, {"access", "refresh"})
        /\ UNCHANGED <<now, subVars, services, orders, history, wallets, cards, usage,
                       payments, options, refunds, emailVerified, emailTokens,
                       phoneVerified, phoneTokens, phoneWrong, resetTokens>>

LoginNext == Login \/ PasswordResetRequest

LoginSpec == Init /\ [][LoginNext]_vars

\* C16: the answer of the password-reset request endpoint to a well-formed
\* email is the answer every other well-formed email gets, whether or not it
\* belongs to a user: status and body are identical.
C16_ResetDoesNotRevealEmail ==
    [][(resp'.op = "reset_request" /\ req'.email \in ValidEmails) =>
          \A e \in ValidEmails :
              /\ resp'.code = PasswordResetRequestResponse(e).code
              /\ resp'.body = PasswordResetRequestResponse(e).body]_vars

\* a request for the address of no user was answered after a request for a
\* user's address had created a reset token
C16_Witness ==
    /\ resp.op = "reset_request"
    /\ req.email \in ValidEmails
    /\ ~EmailRegistered(req.email)
    /\ resp.code = 200
    /\ Len(resetTokens) > 0

\* C18: every login request adds exactly one LoginAttempt: of type 'success',
\* linked to the user, when the request obtains tokens; of type
\* 'failed_password', carrying the submitted email, when the credentials are
\* wrong.
C18_EveryLoginRecorded ==
    [][resp'.op = "login" =>
          /\ Len(loginAttempts') = Len(loginAttempts) + 1
          /\ LET a == loginAttempts'[Len(loginAttempts')]
             IN  IF resp'.code = 200
                 THEN a.attempt_type = "success" /\ a.user = req'.username
                 ELSE a.attempt_type = "failed_password" /\ a.email = req'.email]_vars
====
